---- MODULE Spec2Model ----
(***************************************************************************)
(* A model of the Gold elaborator (GoldElaborator.cpp, GoldDeclaration.cpp) *)
(* as a state machine.  The elaborator turns a file of syntax nodes into    *)
(* Declarations (identification), then into host objects (type             *)
(* elaboration), then attaches initializers and bodies.                    *)
(*                                                                         *)
(* Pointers are modelled as indices into arenas (0 is the null pointer),   *)
(* a syntax node's identity is its path from the file root, and a          *)
(* declarator chain is the sequence of its fragments, head first, so that  *)
(* a fragment's Next is the rest of the sequence and a null chain is <<>>. *)
(***************************************************************************)
EXTENDS Integers, Sequences, FiniteSets, TLC

VARIABLES
  File,    \* the children of the FileSyntax being elaborated
  Pass,    \* where elaborateFile stands: Start, Identify, TypeElaborate, InitElaborate, Finish, Done, Abort
  Child,   \* index of the child the current pass handles next
  Sema,    \* the state of Sema and of everything the Elaborator builds
  Calls,   \* number of direct calls made on the Elaborator interface
  Made,    \* one call of makeDeclarator: the chain passed as Next, and what it returned
  Val      \* the value objects of APValue.h at hand: a DynamicAllocLValue, or APValues

vars == <<File, Pass, Child, Sema, Calls, Made, Val>>

\* ------------------------------------------------------------------ bounds

MaxFile == 2

MaxCalls == 2

MaxNest == 2
MaxRedecl == 3

\* The width of `unsigned` in bits, scaled down from 32.
UnsignedBits == 7

\* ------------------------------------------------------------------ syntax

\* No value object of APValue.h is at hand.
NoValue == [of |-> "none"]

Null == 0

NoSyntax == [k |-> "Null"]

Atom(sp) == [k |-> "Atom", sp |-> sp]

Literal(sp) == [k |-> "Literal", sp |-> sp]

List(ch) == [k |-> "List", ch |-> ch]

Array(ch) == [k |-> "Array", ch |-> ch]

Call(callee, args) == [k |-> "Call", callee |-> callee, args |-> List(args)]

isAtom(S) == S.k = "Atom"

isCall(S) == S.k = "Call"

getArgument(C, i) == C.args.ch[i + 1]

OpEquals == "operator'='"

OpExclaim == "operator'!'"

OpColon == "operator':'"

OpCaret == "operator'^'"

\* Paths: the file is <<>>, its i-th child <<i>>, the j-th parameter of the
\* function declared at path K is K \o <<1, j>>.
ParamKey(K, j) == K \o <<1, j>>

\* The initializer or body (D->Init) of the declaration at path K.
InitKey(K) == K \o <<2>>

\* ------------------------------------------------------------------ host types

\* The spellings the tag-name lookup and the type translation know.
BuiltinTypes == {"int", "auto"}

\* ------------------------------------------------------------------ scopes (GoldScope.h, GoldSema.h)

getCurrentScope(s) == IF s.ScopeStack = <<>> THEN Null ELSE s.ScopeStack[Len(s.ScopeStack)]

getCurrentDecl(s) == IF s.DeclStack = <<>> THEN Null ELSE s.DeclStack[Len(s.DeclStack)]

isBlockScope(s, sc) == s.Scopes[sc].Kind = "Block"

isNamespaceScope(s, sc) == s.Scopes[sc].Kind = "Namespace"

isParameterScope(s, sc) == s.Scopes[sc].Kind = "Parameter"

Note(s, ev, at) == [s EXCEPT !.Log = Append(@, [ev |-> ev, at |-> at])]

pushScope(s, sc) == Note([s EXCEPT !.ScopeStack = Append(@, sc)], "pushScope", <<sc>>)

popScope(s) == [s EXCEPT !.ScopeStack = SubSeq(@, 1, Len(@) - 1)]

enterScope(s, K, Term) ==
  LET New == [Kind |-> K, Parent |-> getCurrentScope(s), Term |-> Term, Decls |-> <<>>]
      t == [s EXCEPT !.Scopes = Append(@, New)]
  IN pushScope(t, Len(t.Scopes))

leaveScope(s, Term) == popScope(s)

pushDecl(s, d) == Note([s EXCEPT !.DeclStack = Append(@, d)], "pushDecl", <<d>>)

popDecl(s) == [s EXCEPT !.DeclStack = SubSeq(@, 1, Len(@) - 1)]

\* The declaration context objects are added to: the object of the current declaration.
getCurrentCxxDeclContext(s) == s.Decls[getCurrentDecl(s)].Cxx

\* Scope::findDecl(const Syntax *): the Declaration of this scope made for node K.
findDeclOfSyntax(s, sc, K) ==
  LET Hits == {i \in 1..Len(s.Scopes[sc].Decls) : s.Decls[s.Scopes[sc].Decls[i]].Op = K}
  IN IF Hits = {} THEN Null
     ELSE s.Scopes[sc].Decls[CHOOSE i \in Hits : \A j \in Hits : i <= j]

\* Scope::findDecl(IdentifierInfo *): the binding of the name in this scope
\* ("a name that already exists in the current block"); a rebinding replaces it.
findDecl(s, sc, Id) ==
  LET Hits == {i \in 1..Len(s.Scopes[sc].Decls) :
                 Id # "" /\ s.Decls[s.Scopes[sc].Decls[i]].Id = Id}
  IN IF Hits = {} THEN Null
     ELSE s.Scopes[sc].Decls[CHOOSE i \in Hits : \A j \in Hits : j <= i]

addDecl(s, sc, d) == [s EXCEPT !.Scopes[sc].Decls = Append(@, d)]

\* Sema::lookupUnqualifiedName for LookupTagName: no declaration of this
\* elaborator declares a tag, so only the builtin type names resolve.
lookupUnqualifiedName(s, sp) == sp \in BuiltinTypes

\* An assertion that fails: the build with assertions stops the process.
Abort(s, msg, at) == Note([s EXCEPT !.Aborted = TRUE, !.AbortMsg = msg], "abort", at)

\* ------------------------------------------------------------------ declarators

\* An Identifier fragment that forgets the chain it was given.
buildIdDeclaratorAlone(S, Next) ==
  <<[Kind |-> "Identifier", Call |-> NoSyntax, Data |-> S, ConstructedScope |-> Null]>>

buildIdDeclarator(S, Next) ==
  <<[Kind |-> "Identifier", Call |-> NoSyntax, Data |-> S, ConstructedScope |-> Null]>> \o Next

\* Declarator::getType of the fragment at the head of a chain: the Data union read as a type.
getType(D) == D[1].Data

buildTypeDeclarator(S, Next) ==
  <<[Kind |-> "Type",
     Call |-> IF isCall(S) THEN S ELSE NoSyntax,
     Data |-> IF isCall(S) THEN (IF Next # <<>> THEN getType(Next) ELSE getArgument(S, 1))
              ELSE S,
     ConstructedScope |-> Null]>> \o Next

buildFunctionDeclarator(S, Next) ==
  <<[Kind |-> "Function", Call |-> S, Data |-> S.args, ConstructedScope |-> Null]>> \o Next

\* A Pointer fragment put behind the chain of its operand instead of in front of it.
buildPointerDeclaratorBehind(S, Next) ==
  Next \o <<[Kind |-> "Pointer", Call |-> S, Data |-> NoSyntax, ConstructedScope |-> Null]>>

buildPointerDeclarator(S, Next) ==
  <<[Kind |-> "Pointer", Call |-> S, Data |-> NoSyntax, ConstructedScope |-> Null]>> \o Next

\* The result of makeDeclarator: a chain (<<>> is nullptr), or a failed cast<AtomSyntax>.
Chain(ch) == [abort |-> FALSE, ch |-> ch]

CastFailed == [abort |-> TRUE, ch |-> <<>>]

RECURSIVE makeDeclarator(_, _, _)
makeDeclarator(s, S, Next) ==
  IF isAtom(S) THEN
    IF lookupUnqualifiedName(s, S.sp) THEN Chain(buildTypeDeclarator(S, Next))
    ELSE Chain(buildIdDeclarator(S, Next))
  ELSE IF isCall(S) THEN
    IF ~isAtom(S.callee) THEN
      \* cast<AtomSyntax> of a node that is no atom: the assertion of cast<> fails;
      \* without assertions the spelling read is no operator's and the callee is walked.
      IF s.NDEBUG THEN makeDeclarator(s, S.callee, buildFunctionDeclarator(S, Next))
      ELSE CastFailed
    ELSE IF S.callee.sp = OpColon THEN
      IF isCall(getArgument(S, 1)) THEN
        LET R == makeDeclarator(s, getArgument(S, 1), Next)
        IN IF R.abort THEN R ELSE makeDeclarator(s, getArgument(S, 0), R.ch)
      ELSE makeDeclarator(s, getArgument(S, 0), buildTypeDeclarator(S, Next))
    ELSE IF S.callee.sp = OpCaret THEN
      LET R == makeDeclarator(s, getArgument(S, 0), Next)
      IN IF R.abort THEN R ELSE Chain(buildPointerDeclarator(S, R.ch))
    ELSE makeDeclarator(s, S.callee, buildFunctionDeclarator(S, Next))
  ELSE Chain(<<>>)

\* ------------------------------------------------------------------ declarations (GoldDeclaration.cpp)

\* A declarator taken to declare a function when any of its fragments declares parameters.
FunctionDclAnywhere(Dcl) == \E n \in 1..Len(Dcl) : Dcl[n].Kind = "Function"

\* "A declarator declares a function if its first non-id declarator declares parameters."
FunctionDcl(Dcl) ==
  LET Rest == IF Dcl # <<>> /\ Dcl[1].Kind = "Identifier" THEN Tail(Dcl) ELSE Dcl
  IN Rest # <<>> /\ Rest[1].Kind = "Function"

declaresFunction(s, d) == FunctionDcl(s.Decls[d].Decl)

\* The walk of getFirstDeclarator: from fragment i on, the place of the first
\* fragment of kind DK, 0 (null) when the chain ends before one is met.
RECURSIVE firstFrom(_, _, _)
firstFrom(Dcl, DK, i) ==
  IF i > Len(Dcl) THEN Null
  ELSE IF Dcl[i].Kind = DK THEN i
  ELSE firstFrom(Dcl, DK, i + 1)

\* A lookup that hands out the head of the chain whatever its kind.
getFirstDeclaratorHead(Dcl, DK) == IF Dcl = <<>> THEN Null ELSE 1

getFirstDeclarator(Dcl, DK) == firstFrom(Dcl, DK, 1)

\* Declaration::getIdDeclarator returns IdDcl, the Identifier fragment the
\* Declaration caches when it is constructed.
getIdDeclarator(s, d) == getFirstDeclarator(s.Decls[d].Decl, "Identifier")

\* The loop of getEndOfDecl: the number of times Next is followed from the head
\* until a fragment without Next is reached.
RECURSIVE stepsToEnd(_)
stepsToEnd(Dcl) == IF Tail(Dcl) = <<>> THEN 0 ELSE 1 + stepsToEnd(Tail(Dcl))

\* new Declaration(Cxt, Op, Decl, Init): alone in its redeclaration ring, nothing materialized.
\* Op is the identity of the node the Declaration was made for, Syntax the node itself.
NewDeclaration(s, Cxt, Op, S, Dcl, Init, Id) ==
  [Cxt |-> Cxt, Op |-> Op, Syntax |-> S, Decl |-> Dcl, Init |-> Init, Id |-> Id, Cxx |-> Null,
   First |-> Len(s.Decls) + 1, Next |-> Len(s.Decls) + 1, SavedScope |-> Null]

\* setPreviousDecl that takes Prev itself, not Prev's First, as the canonical Declaration
\* and leaves the new Declaration's own link alone.
setPreviousDeclOwnRing(s, this, Prev) == [s EXCEPT !.Decls[Prev].Next = this]

\* setPreviousDecl that leaves Prev's link alone.
setPreviousDeclBeside(s, this, Prev) ==
  LET b == [s EXCEPT !.Decls[this].First = s.Decls[Prev].First]
  IN [b EXCEPT !.Decls[this].Next = b.Decls[this].First]

\* setPreviousDecl that takes Prev itself as the canonical Declaration.
setPreviousDeclFirstIsPrev(s, this, Prev) ==
  LET a == [s EXCEPT !.Decls[Prev].Next = this]
      b == [a EXCEPT !.Decls[this].First = Prev]
  IN [b EXCEPT !.Decls[this].Next = a.Decls[Prev].First]

setPreviousDecl(s, this, Prev) ==
  LET a == [s EXCEPT !.Decls[Prev].Next = this]
      b == [a EXCEPT !.Decls[this].First = a.Decls[Prev].First]
  IN [b EXCEPT !.Decls[this].Next = b.Decls[this].First]

\* ------------------------------------------------------------------ identification

getIdentifier(Dcl) == IF Dcl[1].Kind = "Identifier" /\ isAtom(Dcl[1].Data) THEN Dcl[1].Data.sp ELSE ""

\* identifyDecl without the test for an assignment to a name of the current block.
bindDeclAlways(s, S, K, Dcl, Init, OperatorEquals) ==
  LET CurScope == getCurrentScope(s)
      Id == getIdentifier(Dcl)
      TheDecl == Len(s.Decls) + 1
      a == [s EXCEPT !.Decls = Append(@, NewDeclaration(s, getCurrentDecl(s), K, S, Dcl, Init, Id))]
      OldDecl == findDecl(s, CurScope, Id)
      b == IF (isNamespaceScope(s, CurScope) \/ isParameterScope(s, CurScope)) /\ OldDecl # Null
           THEN setPreviousDecl(a, TheDecl, OldDecl)
           ELSE a
  IN addDecl(b, CurScope, TheDecl)

\* The part of identifyDecl after the declarator was built.
bindDecl(s, S, K, Dcl, Init, OperatorEquals) ==
  LET CurScope == getCurrentScope(s)
      Id == getIdentifier(Dcl)
  IN IF isBlockScope(s, CurScope) /\ findDecl(s, CurScope, Id) # Null /\ OperatorEquals
     THEN s
     ELSE LET TheDecl == Len(s.Decls) + 1
              a == [s EXCEPT !.Decls =
                      Append(@, NewDeclaration(s, getCurrentDecl(s), K, S, Dcl, Init, Id))]
              OldDecl == findDecl(s, CurScope, Id)
              b == IF (isNamespaceScope(s, CurScope) \/ isParameterScope(s, CurScope))
                      /\ OldDecl # Null
                   THEN setPreviousDecl(a, TheDecl, OldDecl)
                   ELSE a
          IN addDecl(b, CurScope, TheDecl)

\* The part of identifyDecl between the declarator and the Declaration.
checkDeclarator(s, S, K, R, Init, OperatorEquals) ==
  IF R.abort THEN Abort(s, "cast<AtomSyntax>", K)
  ELSE IF R.ch = <<>> THEN s
  ELSE IF isParameterScope(s, getCurrentScope(s)) /\ R.ch[1].Kind # "Identifier" /\ ~s.NDEBUG
  THEN Abort(s, "Invalid parameter declaration", K)
  ELSE bindDecl(s, S, K, R.ch, Init, OperatorEquals)

\* identifyDecl that takes every call with a leaf callee for a declaration.
identifyDeclAnyCall(s, S, K) ==
  IF s.Aborted \/ ~isCall(S) THEN s
  ELSE IF ~isAtom(S.callee) THEN s
  ELSE IF S.callee.sp = OpExclaim /\ isParameterScope(s, getCurrentScope(s)) /\ ~s.NDEBUG
  THEN Abort(s, "Function definition", K)
  ELSE checkDeclarator(s, S, K,
         makeDeclarator(s, IF S.callee.sp \in {OpEquals, OpExclaim} THEN getArgument(S, 0) ELSE S, <<>>),
         IF S.callee.sp \in {OpEquals, OpExclaim} THEN getArgument(S, 1) ELSE NoSyntax,
         S.callee.sp = OpEquals)

identifyDecl(s, S, K) ==
  IF s.Aborted \/ ~isCall(S) THEN s
  ELSE IF ~isAtom(S.callee) THEN s
  ELSE LET Op == S.callee.sp
           CurScope == getCurrentScope(s)
       IN IF Op \notin {OpEquals, OpExclaim, OpColon} THEN s
          ELSE IF Op = OpExclaim /\ isParameterScope(s, CurScope) /\ ~s.NDEBUG
          THEN Abort(s, "Function definition", K)
          ELSE LET Decl == IF Op = OpColon THEN S ELSE getArgument(S, 0)
                   Init == IF Op = OpColon THEN NoSyntax ELSE getArgument(S, 1)
               IN checkDeclarator(s, S, K, makeDeclarator(s, Decl, <<>>), Init, Op = OpEquals)

\* ------------------------------------------------------------------ host objects

NoDef == [init |-> NoSyntax, of |-> Null]

NewObject(Kind, Name, Type, SC) ==
  [Kind |-> Kind, Name |-> Name, Type |-> Type, SC |-> SC, Def |-> NoDef, Params |-> <<>>]

\* X::Create: a new host object; its handle is its index.
Create(s, Obj) == [s EXCEPT !.Objs = Append(@, Obj)]

\* DeclContext::addDecl.
OwnerAddDecl(s, Owner, Obj) == [s EXCEPT !.CtxDecls = Append(@, [Owner |-> Owner, Obj |-> Obj])]

Report(s, diag, at) == [s EXCEPT !.Diags = Append(@, [diag |-> diag, at |-> at])]

\* Sema::checkForRedefinition: the entity D redeclares already carries a completed
\* initializer or body; the new definition is reported and rejected.
isRedefinition(s, d) ==
  \E e \in 1..Len(s.Decls) :
     /\ e # d
     /\ s.Decls[e].First = s.Decls[d].First
     /\ s.Decls[e].Cxx # Null
     /\ s.Objs[s.Decls[e].Cxx].Def # NoDef

checkForRedefinition(s, d) ==
  IF isRedefinition(s, d) THEN Report(s, "err_redefinition", s.Decls[d].Op) ELSE s

\* ------------------------------------------------------------------ type elaboration

RECURSIVE elaborateDeclSyntax(_, _, _)
RECURSIVE elaborateParameters(_, _, _, _)
RECURSIVE elaborateDeclarators(_, _, _, _)

\* ExprElaborator::elaborateTypeExpr walks the chain back to front, starting from
\* the deduced type; the result is left in s.TypeExpr ("" is a null expression).
\* A Function fragment materializes its parameters in a Parameter scope of its own
\* and saves that scope on the fragment.
elaborateParameters(s, K, Params, j) ==
  IF j > Len(Params) \/ s.Aborted THEN s
  ELSE elaborateParameters(elaborateDeclSyntax(s, Params[j], ParamKey(K, j)), K, Params, j + 1)

saveParameterScope(b, d, i, ParamScope) ==
  IF b.Aborted THEN b
  ELSE leaveScope([b EXCEPT !.Decls[d].Decl[i].ConstructedScope = ParamScope], b.Decls[d].Op)

elaborateFunctionType(s, d, i) ==
  saveParameterScope(
    elaborateParameters(enterScope(s, "Parameter", s.Decls[d].Op), s.Decls[d].Op,
                        s.Decls[d].Decl[i].Data.ch, 1),
    d, i, Len(s.Scopes) + 1)

elaborateDeclarators(s, d, i, Ty) ==
  IF s.Aborted THEN s
  ELSE IF i = 0 THEN [s EXCEPT !.TypeExpr = Ty]
  ELSE LET D == s.Decls[d].Decl[i]
       IN CASE D.Kind = "Identifier" -> elaborateDeclarators(s, d, i - 1, Ty)
            [] D.Kind = "Pointer" -> elaborateDeclarators(s, d, i - 1, "pointer")
            [] D.Kind = "Function" ->
                 elaborateDeclarators(elaborateFunctionType(s, d, i), d, i - 1, "function")
            [] D.Kind = "Type" ->
                 IF isAtom(D.Data) /\ D.Data.sp \in BuiltinTypes
                 THEN elaborateDeclarators(s, d, i - 1, D.Data.sp)
                 ELSE [s EXCEPT !.TypeExpr = ""]

elaborateTypeExpr(s, d) == elaborateDeclarators(s, d, Len(s.Decls[d].Decl), "auto")

\* getFunctionParameters: the parameter objects of D, or the way the walk fails.
\* A parameter the saved scope does not bind is a null Declaration dereferenced;
\* an unmaterialized one fails the assertion, or is collected as null without it.
getFunctionParameters(s, d) ==
  LET FnDecl == s.Decls[d].Decl[2]
      K == s.Decls[d].Op
      ParamList == FnDecl.Data.ch
      ParamScope == FnDecl.ConstructedScope
      PD(j) == findDeclOfSyntax(s, ParamScope, ParamKey(K, j))
  IN IF \E j \in 1..Len(ParamList) : PD(j) = Null
     THEN [fail |-> "null Declaration", Params |-> <<>>]
     ELSE IF ~s.NDEBUG /\ \E j \in 1..Len(ParamList) : s.Decls[PD(j)].Cxx = Null
     THEN [fail |-> "No corresponding declaration", Params |-> <<>>]
     ELSE [fail |-> "", Params |-> [j \in 1..Len(ParamList) |-> s.Decls[PD(j)].Cxx]]

\* elaborateFunctionDecl once the type expression a.TypeExpr is there.
createFunctionDecl(a, d, Owner) ==
  LET FD == Len(a.Objs) + 1
      b == Create(a, NewObject("Function", a.Decls[d].Id, a.TypeExpr, "SC_Extern"))
      P == getFunctionParameters(b, d)
      c == OwnerAddDecl([b EXCEPT !.Objs[FD].Params = P.Params], Owner, FD)
  IN IF a.Aborted THEN a
     ELSE IF a.TypeExpr = "" THEN Report(a, "err_failed_to_translate_type", a.Decls[d].Op)
     ELSE IF P.fail # "" THEN Abort(b, P.fail, a.Decls[d].Op)
     ELSE [c EXCEPT !.Decls[d].Cxx = FD, !.FunctionScopes = @ + 1]

elaborateFunctionDecl(s, d) ==
  createFunctionDecl(elaborateTypeExpr(s, d), d, getCurrentCxxDeclContext(s))

\* The storage classes of getStorageClass the other way round.
getStorageClassSwapped(s) == IF isBlockScope(s, getCurrentScope(s)) THEN "SC_Static" ELSE "SC_Auto"

getStorageClass(s) == IF isBlockScope(s, getCurrentScope(s)) THEN "SC_Auto" ELSE "SC_Static"

\* elaborateParameterDecl once the type expression a.TypeExpr is there.
createParmVarDecl(a, d) ==
  LET P == Len(a.Objs) + 1
      b == Create(a, NewObject("ParmVar", a.Decls[d].Id, a.TypeExpr, "SC_None"))
  IN IF a.Aborted THEN a
     ELSE IF a.TypeExpr = "" THEN Report(a, "err_failed_to_translate_type", a.Decls[d].Op)
     ELSE [b EXCEPT !.Decls[d].Cxx = P]

elaborateParameterDecl(s, d) == createParmVarDecl(elaborateTypeExpr(s, d), d)

\* elaborateVariableDecl once the type expression a.TypeExpr is there.
createVarDecl(a, d, Owner) ==
  LET VD == Len(a.Objs) + 1
      b == Create(a, NewObject("Var", a.Decls[d].Id, a.TypeExpr, getStorageClass(a)))
      c == OwnerAddDecl(b, Owner, VD)
  IN IF a.Aborted THEN a
     ELSE IF a.TypeExpr = "" THEN Report(a, "err_failed_to_translate_type", a.Decls[d].Op)
     ELSE [c EXCEPT !.Decls[d].Cxx = VD]

elaborateVariableDecl(s, d) ==
  IF isParameterScope(s, getCurrentScope(s)) THEN elaborateParameterDecl(s, d)
  ELSE createVarDecl(elaborateTypeExpr(s, d), d, getCurrentCxxDeclContext(s))

elaborateDecl(s, d) ==
  IF s.Aborted THEN s
  ELSE IF declaresFunction(s, d) THEN elaborateFunctionDecl(s, d)
  ELSE elaborateVariableDecl(s, d)

elaborateDeclType(s, S, K) ==
  LET D == findDeclOfSyntax(s, getCurrentScope(s), K)
  IN IF s.Aborted \/ D = Null THEN s ELSE elaborateDecl(s, D)

\* ------------------------------------------------------------------ initializers and bodies

\* StmtElaborator::elaborateBlock: the statement elaborator produces the body.
elaborateBlock(s, d) == Note(s, "elaborateBlock", <<d>> \o s.ScopeStack)

setDef(s, Obj, d) == [s EXCEPT !.Objs[Obj].Def = [init |-> s.Decls[d].Init, of |-> d]]

\* The body path of elaborateFunctionDef that leaves the parameter scope pushed.
elaborateFunctionBodyKeepsScope(s, d) ==
  LET FD == s.Decls[d].Cxx
      e == elaborateBlock(
             enterScope(pushScope(pushDecl(s, d), s.Decls[d].Decl[2].ConstructedScope),
                        "Function", InitKey(s.Decls[d].Op)), d)
  IN IF FD = Null THEN Abort(e, "setBody on a null FunctionDecl", s.Decls[d].Op)
     ELSE popDecl([leaveScope(setDef(e, FD, d), InitKey(s.Decls[d].Op)) EXCEPT !.FunctionScopes = @ - 1])

\* The body path of elaborateFunctionDef, after the redefinition check.
elaborateFunctionBody(s, d) ==
  LET FD == s.Decls[d].Cxx
      a == pushDecl(s, d)
      FnDecl == s.Decls[d].Decl[2]
      b == pushScope(a, FnDecl.ConstructedScope)
      c == enterScope(b, "Function", InitKey(s.Decls[d].Op))
      e == elaborateBlock(c, d)
      f == popScope(leaveScope(setDef(e, FD, d), InitKey(s.Decls[d].Op)))
  IN IF FD = Null THEN Abort(e, "setBody on a null FunctionDecl", s.Decls[d].Op)
     ELSE popDecl([f EXCEPT !.FunctionScopes = @ - 1])

\* elaborateFunctionDef without the redefinition check.
elaborateFunctionDefUnchecked(s, d) ==
  IF s.Decls[d].Cxx = Null /\ ~s.NDEBUG
  THEN Abort(s, "cast<FunctionDecl> of a null Decl", s.Decls[d].Op)
  ELSE IF s.Decls[d].Init = NoSyntax THEN s
  ELSE elaborateFunctionBody(s, d)

elaborateFunctionDef(s, d) ==
  IF s.Decls[d].Cxx = Null /\ ~s.NDEBUG
  THEN Abort(s, "cast<FunctionDecl> of a null Decl", s.Decls[d].Op)
  ELSE IF s.Decls[d].Init = NoSyntax THEN s
  ELSE IF isRedefinition(s, d) THEN checkForRedefinition(s, d)
  ELSE elaborateFunctionBody(s, d)

\* ExprElaborator::elaborateExpr of an initializer: a name of a type is elaborated as a type.
isTypeExpression(Init) == isAtom(Init) /\ Init.sp \in BuiltinTypes

\* Sema::DeduceAutoType: a braced list has no type to deduce.
deduceAutoTypeFails(Init) == Init.k = "Array"

elaborateVariableInit(s, d) ==
  LET VD == s.Decls[d].Cxx
      Init == s.Decls[d].Init
  IN IF VD = Null THEN s
     ELSE IF Init = NoSyntax THEN s
     ELSE IF isRedefinition(s, d) THEN checkForRedefinition(s, d)
     ELSE IF isTypeExpression(Init) THEN Report(s, "Expected expression.", s.Decls[d].Op)
     ELSE IF s.Objs[VD].Type = "auto" /\ deduceAutoTypeFails(Init)
     THEN Report(s, "Failed to deduce type of expression.", s.Decls[d].Op)
     ELSE LET a == IF s.Objs[VD].Type = "auto" THEN [s EXCEPT !.Objs[VD].Type = "int"] ELSE s
          IN setDef(a, VD, d)

elaborateDef(s, d) ==
  IF s.Aborted THEN s
  ELSE IF declaresFunction(s, d) THEN elaborateFunctionDef(s, d)
  ELSE elaborateVariableInit(s, d)

elaborateDeclInit(s, S, K) ==
  LET D == findDeclOfSyntax(s, getCurrentScope(s), K)
  IN IF s.Aborted \/ D = Null THEN s ELSE elaborateDef(s, D)

\* elaborateDeclSyntax once the node is identified.
elaborateIdentified(a, D) ==
  IF a.Aborted \/ D = Null THEN a ELSE elaborateDef(elaborateDecl(a, D), D)

findIdentified(a, K) == elaborateIdentified(a, findDeclOfSyntax(a, getCurrentScope(a), K))

elaborateDeclSyntax(s, S, K) == findIdentified(identifyDecl(s, S, K), K)

\* ------------------------------------------------------------------ elaborateFile

\* Elaborator::Elaborator, before any file is entered.
NewSema(ndebug) ==
  [NDEBUG |-> ndebug, Decls |-> <<>>, Scopes |-> <<>>, ScopeStack |-> <<>>, DeclStack |-> <<>>,
   Objs |-> <<NewObject("TranslationUnit", "", "", "")>>, CtxDecls |-> <<>>, Diags |-> <<>>,
   FunctionScopes |-> 0, TypeExpr |-> "", Aborted |-> FALSE, AbortMsg |-> "", Log |-> <<>>]

TranslationUnitDecl == 1

startFile(s) ==
  LET a == enterScope(s, "Namespace", <<>>)
      D == [NewDeclaration(a, Null, <<>>, NoSyntax, <<>>, NoSyntax, "") EXCEPT
              !.SavedScope = getCurrentScope(a), !.Cxx = TranslationUnitDecl]
  IN pushDecl([a EXCEPT !.Decls = Append(@, D)], Len(a.Decls) + 1)

finishFile(s) == leaveScope(popDecl(s), <<>>)

\* The order of the loop bodies of elaborateFile over a file of n children.
FirstStep(n) ==
  IF n = 0 THEN [pass |-> "Finish", child |-> 0] ELSE [pass |-> "Identify", child |-> 1]

\* A single walk that identifies, types and initializes one child after the other.
NextStepPerChild(pass, child, n) ==
  IF pass = "Identify" THEN [pass |-> "TypeElaborate", child |-> child]
  ELSE IF pass = "TypeElaborate" THEN [pass |-> "InitElaborate", child |-> child]
  ELSE IF child < n THEN [pass |-> "Identify", child |-> child + 1]
  ELSE [pass |-> "Finish", child |-> 0]

\* The three loops in order, the second one over the children from last to first.
NextStepTypesBackwards(pass, child, n) ==
  IF pass = "Identify"
  THEN IF child < n THEN [pass |-> pass, child |-> child + 1]
       ELSE [pass |-> "TypeElaborate", child |-> n]
  ELSE IF pass = "TypeElaborate"
  THEN IF child > 1 THEN [pass |-> pass, child |-> child - 1]
       ELSE [pass |-> "InitElaborate", child |-> 1]
  ELSE IF child < n THEN [pass |-> pass, child |-> child + 1]
  ELSE [pass |-> "Finish", child |-> 0]

\* The three loops, started over after the last one.
NextStepOverAgain(pass, child, n) ==
  IF child < n THEN [pass |-> pass, child |-> child + 1]
  ELSE IF pass = "Identify" THEN [pass |-> "TypeElaborate", child |-> 1]
  ELSE IF pass = "TypeElaborate" THEN [pass |-> "InitElaborate", child |-> 1]
  ELSE [pass |-> "Identify", child |-> 1]

NextStep(pass, child, n) ==
  IF child < n THEN [pass |-> pass, child |-> child + 1]
  ELSE IF pass = "Identify" THEN [pass |-> "TypeElaborate", child |-> 1]
  ELSE IF pass = "TypeElaborate" THEN [pass |-> "InitElaborate", child |-> 1]
  ELSE [pass |-> "Finish", child |-> 0]

\* One loop body done: on to the next, unless the process stopped.
Step(s) ==
  IF s.Aborted
  THEN Pass' = "Abort" /\ Child' = 0
  ELSE LET n == NextStep(Pass, Child, Len(File))
       IN Pass' = n.pass /\ Child' = n.child

StartFile ==
  /\ Pass = "Start"
  /\ Sema' = startFile(Sema)
  /\ Pass' = FirstStep(Len(File)).pass
  /\ Child' = FirstStep(Len(File)).child
  /\ UNCHANGED <<File, Calls, Made, Val>>

IdentifyPass ==
  /\ Pass = "Identify"
  /\ Sema' = identifyDecl(Note(Sema, "identifyDecl", <<Child>>), File[Child], <<Child>>)
  /\ Step(Sema')
  /\ UNCHANGED <<File, Calls, Made, Val>>

TypePass ==
  /\ Pass = "TypeElaborate"
  /\ Sema' = elaborateDeclType(Note(Sema, "elaborateDeclType", <<Child>>), File[Child], <<Child>>)
  /\ Step(Sema')
  /\ UNCHANGED <<File, Calls, Made, Val>>

InitPass ==
  /\ Pass = "InitElaborate"
  /\ Sema' = elaborateDeclInit(Note(Sema, "elaborateDeclInit", <<Child>>), File[Child], <<Child>>)
  /\ Step(Sema')
  /\ UNCHANGED <<File, Calls, Made, Val>>

FinishFile ==
  /\ Pass = "Finish"
  /\ Sema' = finishFile(Sema)
  /\ Pass' = "Done"
  /\ UNCHANGED <<File, Child, Calls, Made, Val>>

\* ------------------------------------------------------------------ input files

Colon(a, b) == Call(Atom(OpColon), <<a, b>>)

Equals(a, b) == Call(Atom(OpEquals), <<a, b>>)

Exclaim(a, b) == Call(Atom(OpExclaim), <<a, b>>)

Caret(a) == Call(Atom(OpCaret), <<a>>)

\* Declarations of variables and parameters.
VariableForms ==
  { Colon(Atom("x"), Atom("int")),                       \* x : int
    Colon(Atom("x"), Atom("auto")),                      \* x : auto
    Colon(Atom("x"), Atom("undeclared_t")),              \* x : undeclared_t
    Equals(Atom("x"), Literal("3")),                     \* x = 3
    Equals(Atom("x"), Literal("4")),                     \* x = 4
    Equals(Colon(Atom("x"), Atom("int")), Literal("0")), \* x : int = 0
    Exclaim(Atom("x"), Literal("1")),                    \* x ! 1
    Colon(Caret(Atom("x")), Atom("int")),                \* ^x : int
    Atom("x"),                                           \* x
    Call(Atom("g"), <<>>) }                              \* g()

ParameterLists == {<<>>} \cup {<<P>> : P \in VariableForms \ {Equals(Atom("x"), Literal("4")), Call(Atom("g"), <<>>)}}

Body == Array(<<Call(Atom("g"), <<>>)>>)                 \* { g() }

FunctionForms ==
  { Colon(Call(Atom("f"), <<>>), Atom("int")),                             \* f() : int
    Exclaim(Colon(Call(Atom("f"), <<>>), Atom("int")), Body),              \* f() : int ! { g() }
    Exclaim(Colon(Call(Atom("g"), <<>>), Atom("int")), Body),              \* g() : int ! { g() }
    Colon(Call(Atom("g"), <<>>), Atom("undeclared_t")),                    \* g() : undeclared_t
    Exclaim(Colon(Call(Atom("g"), <<>>), Atom("undeclared_t")), Body) }    \* g() : undeclared_t ! { g() }
  \cup { Colon(Call(Atom("h"), Ps), Atom("int")) : Ps \in ParameterLists \ {<<>>} }

Forms == VariableForms \cup FunctionForms

RECURSIVE Files(_)
Files(n) == IF n = 0 THEN {<<>>} ELSE Files(n - 1) \cup {Append(F, S) : F \in Files(n - 1), S \in Forms}

\* No call of makeDeclarator is observed.
NoDcl == [Next |-> <<>>, done |-> FALSE, R |-> [abort |-> FALSE, ch |-> <<>>]]

Init ==
  /\ File \in Files(MaxFile)
  /\ Pass = "Start"
  /\ Child = 0
  /\ Calls = 0
  /\ Made = NoDcl
  /\ Val = NoValue
  /\ \E ndebug \in BOOLEAN : Sema = NewSema(ndebug)

Next == StartFile \/ IdentifyPass \/ TypePass \/ InitPass \/ FinishFile

Spec == Init /\ [][Next]_vars

\* The positions of elaborateFile.
PassNames == {"Start", "Identify", "TypeElaborate", "InitElaborate", "Finish", "Done", "Abort"}

\* Control moves on: elaborateFile stands at another loop body, or has ended.
Advance ==
  /\ Pass \notin {"Done", "Abort"}
  /\ Pass' \in PassNames
  /\ Child' \in 0..Len(File)
  /\ <<Pass', Child'>> # <<Pass, Child>>

\* elaborateFile is one sequential call on one thread: as long as it has not
\* returned and the process was not stopped, control moves on to its next statement.
SpecLive == Init /\ [][Next]_vars /\ WF_<<Pass, Child>>(Advance)

\* ------------------------------------------------------------------ the Elaborator interface, called directly

\* The expression and statement elaborators call identifyDecl, elaborateDeclSyntax,
\* elaborateDecl and elaborateDef on the nodes of the scope they entered: a
\* Parameter scope for a parameter list, a Block scope for a block, or the
\* Namespace scope of the file.  File collects the nodes handed over.
ScopeKinds == {"Namespace", "Parameter", "Block"}

ApiForms ==
  VariableForms \cup
  { Colon(Call(Atom("f"), <<>>), Atom("int")),
    Exclaim(Colon(Call(Atom("f"), <<>>), Atom("int")), Body),
    Exclaim(Colon(Call(Atom("g"), <<>>), Atom("undeclared_t")), Body),
    Call(Call(Atom("g"), <<>>), <<>>) }                                    \* g()()

InitApi ==
  /\ File = <<>>
  /\ Pass = "Api"
  /\ Child = 0
  /\ Calls = 0
  /\ Made = NoDcl
  /\ Val = NoValue
  /\ \E ndebug \in BOOLEAN, K \in ScopeKinds :
       Sema = IF K = "Namespace" THEN startFile(NewSema(ndebug))
              ELSE enterScope(startFile(NewSema(ndebug)), K, <<0>>)

CanCall == Pass = "Api" /\ Calls < MaxCalls /\ ~Sema.Aborted

CallIdentifyDecl ==
  /\ CanCall
  /\ \E S \in ApiForms :
       /\ File' = Append(File, S)
       /\ Sema' = identifyDecl(Note(Sema, "identifyDecl", <<Len(File')>>), S, <<Len(File')>>)
  /\ Calls' = Calls + 1
  /\ UNCHANGED <<Pass, Child, Made, Val>>

CallElaborateDeclSyntax ==
  /\ CanCall
  /\ \E S \in ApiForms :
       /\ File' = Append(File, S)
       /\ Sema' = elaborateDeclSyntax(Note(Sema, "identifyDecl", <<Len(File')>>), S, <<Len(File')>>)
  /\ Calls' = Calls + 1
  /\ UNCHANGED <<Pass, Child, Made, Val>>

\* The Declarations of the current scope.
CurrentDecls == {Sema.Scopes[getCurrentScope(Sema)].Decls[i] :
                   i \in 1..Len(Sema.Scopes[getCurrentScope(Sema)].Decls)}

CallElaborateDecl ==
  /\ CanCall
  /\ \E d \in CurrentDecls : Sema' = elaborateDecl(Note(Sema, "elaborateDecl", <<d>>), d)
  /\ Calls' = Calls + 1
  /\ UNCHANGED <<File, Pass, Child, Made, Val>>

CallElaborateDef ==
  /\ CanCall
  /\ \E d \in CurrentDecls : Sema' = elaborateDef(Note(Sema, "elaborateDef", <<d>>), d)
  /\ Calls' = Calls + 1
  /\ UNCHANGED <<File, Pass, Child, Made, Val>>

NextApi == CallIdentifyDecl \/ CallElaborateDeclSyntax \/ CallElaborateDecl \/ CallElaborateDef

SpecApi == InitApi /\ [][NextApi]_vars

\* ------------------------------------------------------------------ makeDeclarator, called on one node

\* Declarator syntax nested up to n operators deep over the leaves `x` and `int`:
\* ^D, D(), D : E.
RECURSIVE DeclaratorForms(_)
DeclaratorForms(n) ==
  IF n = 0 THEN {Atom("x"), Atom("int")}
  ELSE {Atom("x"), Atom("int")}
       \cup {Caret(D) : D \in DeclaratorForms(n - 1)}
       \cup {Call(D, <<>>) : D \in DeclaratorForms(n - 1)}
       \cup {Colon(D, E) : D, E \in DeclaratorForms(n - 1)}

\* The nodes makeDeclarator is called on; a literal is neither a leaf name nor a call.
DeclaratorInputs ==
  DeclaratorForms(MaxNest) \cup {Literal("3"), Colon(Literal("3"), Atom("int"))}

\* The chains the recursion passes as Next: none, the Type fragment of an
\* enclosing `_ : auto`, the Function fragment of an enclosing `f()`.
NextChains ==
  { <<>>,
    buildTypeDeclarator(Colon(Atom("y"), Atom("auto")), <<>>),
    buildFunctionDeclarator(Call(Atom("f"), <<>>), <<>>) }

InitDcl ==
  /\ \E S \in DeclaratorInputs : File = <<S>>
  /\ Pass = "Declarator"
  /\ Child = 0
  /\ Calls = 0
  /\ \E N \in NextChains : Made = [NoDcl EXCEPT !.Next = N]
  /\ Val = NoValue
  /\ \E ndebug \in BOOLEAN : Sema = startFile(NewSema(ndebug))

CallMakeDeclarator ==
  /\ Pass = "Declarator"
  /\ ~Made.done
  /\ Made' = [Made EXCEPT !.done = TRUE, !.R = makeDeclarator(Sema, File[1], Made.Next)]
  /\ UNCHANGED <<File, Pass, Child, Sema, Calls, Val>>

\* identifyDecl's next step with the chain: new Declaration(ParentDecl, S, Dcl, Init).
DeclareChain ==
  /\ Pass = "Declarator"
  /\ Made.done /\ ~Made.R.abort /\ Made.R.ch # <<>>
  /\ Len(Sema.Decls) = 1
  /\ Sema' = [Sema EXCEPT !.Decls =
                 Append(@, NewDeclaration(Sema, getCurrentDecl(Sema), <<1>>, File[1], Made.R.ch,
                                          NoSyntax, getIdentifier(Made.R.ch)))]
  /\ UNCHANGED <<File, Pass, Child, Calls, Made, Val>>

NextDcl == CallMakeDeclarator \/ DeclareChain

SpecDcl == InitDcl /\ [][NextDcl]_vars

\* ------------------------------------------------------------------ observations and properties

Children == 1..Len(File)

\* How often the loop body ev of elaborateFile (or a direct call) was applied to child i.
Applied(ev, i) ==
  Cardinality({n \in 1..Len(Sema.Log) : Sema.Log[n].ev = ev /\ Sema.Log[n].at = <<i>>})

FileScope == 1

\* The Declaration the file scope holds for child i.
DeclAt(i) == IF Sema.Scopes = <<>> THEN Null ELSE findDeclOfSyntax(Sema, FileScope, <<i>>)

Bound(i) == findDeclOfSyntax(Sema, getCurrentScope(Sema), <<i>>) # Null

Reported(diag, K) == \E n \in 1..Len(Sema.Diags) : Sema.Diags[n].diag = diag /\ Sema.Diags[n].at = K

AbortedAt(K) == \E n \in 1..Len(Sema.Log) : Sema.Log[n].ev = "abort" /\ Sema.Log[n].at = K

BodyElaborated(d) ==
  \E n \in 1..Len(Sema.Log) : Sema.Log[n].ev = "elaborateBlock" /\ Sema.Log[n].at[1] = d

ScopeDecls(sc) == Sema.Scopes[sc].Decls

\* The three passes are applied in order, each at most once to a child, and
\* a finished run has applied each exactly once to every child.
PassOrder ==
  /\ \A i, j \in Children :
       Applied("elaborateDeclType", i) > 0 => Applied("identifyDecl", j) = 1
  /\ \A i, j \in Children :
       Applied("elaborateDeclInit", i) > 0 => Applied("elaborateDeclType", j) = 1
  /\ \A i \in Children :
       /\ Applied("identifyDecl", i) <= 1
       /\ Applied("elaborateDeclType", i) <= 1
       /\ Applied("elaborateDeclInit", i) <= 1
  /\ Pass = "Done" =>
       \A i \in Children :
         /\ Applied("identifyDecl", i) = 1
         /\ Applied("elaborateDeclType", i) = 1
         /\ Applied("elaborateDeclInit", i) = 1

\* C1: elaborateFile applies identifyDecl to every child before elaborateDeclType
\* to any, elaborateDeclType to every child before elaborateDeclInit to any, each
\* exactly once per child, and the run is never stopped short of Done.
C1_ThreePassesReachDone == PassOrder /\ Pass # "Abort"

\* ---- C2

\* S declares a function: name(params) : type, with or without ! body.
FunctionDeclarator(S) == IF S.callee.sp = OpExclaim THEN getArgument(S, 0) ELSE S

IsFunctionForm(S) ==
  /\ isCall(S)
  /\ S.callee.sp \in {OpColon, OpExclaim}
  /\ isCall(FunctionDeclarator(S))
  /\ FunctionDeclarator(S).callee.sp = OpColon
  /\ isCall(getArgument(FunctionDeclarator(S), 0))
  /\ getArgument(FunctionDeclarator(S), 0).callee.sp \notin {OpColon, OpEquals, OpExclaim, OpCaret}

FunctionName(S) == getArgument(FunctionDeclarator(S), 0).callee.sp

ReturnTypeTranslates(S) ==
  /\ isAtom(getArgument(FunctionDeclarator(S), 1))
  /\ getArgument(FunctionDeclarator(S), 1).sp \in BuiltinTypes

\* The body of the function definition F calls the function G declares.
RefersTo(F, G) ==
  /\ IsFunctionForm(F) /\ IsFunctionForm(G)
  /\ F.callee.sp = OpExclaim
  /\ \E n \in 1..Len(getArgument(F, 1).ch) :
       /\ isCall(getArgument(F, 1).ch[n])
       /\ getArgument(F, 1).ch[n].callee = Atom(FunctionName(G))

IdentificationEnded == Pass \in {"TypeElaborate", "InitElaborate", "Finish", "Done"}

C3_CxxSetOnce ==
  [][\A d \in 1..Len(Sema.Decls) :
       Sema.Decls[d].Cxx # Null => Sema'.Decls[d].Cxx = Sema.Decls[d].Cxx]_vars

\* ---- C4

CurrentKind == Sema.Scopes[getCurrentScope(Sema)].Kind

DefaultedForm == Equals(Colon(Atom("x"), Atom("int")), Literal("0"))

\* No node handed over before node i bound its name in the current scope.
FirstOfItsName(i) ==
  \A j \in 1..(i - 1) :
    Bound(j) => Sema.Decls[findDeclOfSyntax(Sema, getCurrentScope(Sema), <<j>>)].Id # "x"

\* C4: in a parameter scope identifyDecl binds a Declaration for `x` and for
\* `x : int` and none for `x : int = 0`; in a namespace or block scope it binds
\* one for `x : int = 0`.
C4_ParameterForms ==
  (Pass = "Api" /\ ~Sema.Aborted) =>
    \A i \in Children :
      /\ (CurrentKind = "Parameter" /\ File[i] \in {Atom("x"), Colon(Atom("x"), Atom("int"))})
           => Bound(i)
      /\ (CurrentKind = "Parameter" /\ File[i] = DefaultedForm) => ~Bound(i)
      /\ (CurrentKind # "Parameter" /\ File[i] = DefaultedForm /\ FirstOfItsName(i)) => Bound(i)

\* ---- C5

\* C5: a Declaration whose type failed to translate keeps Cxx absent, and the
\* initializer/body pass skips it without stopping the run, variable or function.
C5_UntranslatableTypeIsSkipped ==
  \A d \in 1..Len(Sema.Decls) :
    Reported("err_failed_to_translate_type", Sema.Decls[d].Op) =>
      /\ Sema.Decls[d].Cxx = Null
      /\ ~AbortedAt(Sema.Decls[d].Op)

\* ---- C6

\* A parameter the parameter scope does not support: the definition-only form,
\* or a declarator that does not start with the identifier.
UnsupportedParameter(S) ==
  /\ isCall(S) /\ isAtom(S.callee)
  /\ S.callee.sp \in {OpEquals, OpExclaim, OpColon}
  /\ \/ S.callee.sp = OpExclaim
     \/ LET R == makeDeclarator(Sema, IF S.callee.sp = OpColon THEN S ELSE getArgument(S, 0), <<>>)
        IN R.ch # <<>> /\ R.ch[1].Kind # "Identifier"

ParametersOf(S) == getArgument(FunctionDeclarator(S), 0).args.ch

\* C6: an unsupported parameter is rejected alone and reported: the run is not
\* stopped, no Declaration is bound for it, a diagnostic names it, and the
\* function it belongs to is elaborated.
C6_ParameterErrorsAreLocal ==
  /\ Sema.AbortMsg \notin {"Function definition", "Invalid parameter declaration"}
  /\ \A d \in 1..Len(Sema.Decls) :
       (Sema.Decls[d].Cxt # Null /\ Len(Sema.Decls[d].Op) = 3) =>
         ~UnsupportedParameter(Sema.Decls[d].Syntax)
  /\ \A i \in Children :
       (Applied("elaborateDeclType", i) > 0 /\ IsFunctionForm(File[i])
          /\ ReturnTypeTranslates(File[i])) =>
         \A j \in 1..Len(ParametersOf(File[i])) :
           UnsupportedParameter(ParametersOf(File[i])[j]) =>
             \E n \in 1..Len(Sema.Diags) : Sema.Diags[n].at = ParamKey(<<i>>, j)

\* ---- C7

\* C7: once elaborateDeclInit has handled a variable of undeduced type that has no
\* initializer, a deduced-type failure has been reported for it.
C7_AutoWithoutInitializerIsReported ==
  \A i \in Children :
    (Applied("elaborateDeclInit", i) > 0 /\ DeclAt(i) # Null
       /\ ~declaresFunction(Sema, DeclAt(i))
       /\ Sema.Decls[DeclAt(i)].Init = NoSyntax
       /\ Sema.Decls[DeclAt(i)].Cxx # Null
       /\ Sema.Objs[Sema.Decls[DeclAt(i)].Cxx].Type = "auto") =>
      Reported("Failed to deduce type of expression.", <<i>>)

\* ---- C8

AllBound ==
  UNION {{ScopeDecls(sc)[p] : p \in 1..Len(ScopeDecls(sc))} : sc \in 1..Len(Sema.Scopes)}

\* C8: in a block scope a name has no Declaration made from the assignment form
\* `x = e` after an earlier Declaration of that name in the same block, and no
\* Declaration exists that no scope binds (the root Declaration of the file apart).
C8_BlockReassignment ==
  /\ \A sc \in 1..Len(Sema.Scopes) :
       Sema.Scopes[sc].Kind = "Block" =>
         \A p, q \in 1..Len(ScopeDecls(sc)) :
           (p < q /\ Sema.Decls[ScopeDecls(sc)[p]].Id = Sema.Decls[ScopeDecls(sc)[q]].Id
              /\ Sema.Decls[ScopeDecls(sc)[q]].Id # "") =>
             Sema.Decls[ScopeDecls(sc)[q]].Syntax.callee.sp # OpEquals
  /\ \A d \in 2..Len(Sema.Decls) : d \in AllBound

\* `x = 3` then `x = 4` were identified in a block scope and x has one Declaration.
C8_Witness ==
  /\ Pass = "Api" /\ CurrentKind = "Block"
  /\ File = <<Equals(Atom("x"), Literal("3")), Equals(Atom("x"), Literal("4"))>>
  /\ Applied("identifyDecl", 1) = 1 /\ Applied("identifyDecl", 2) = 1
  /\ Len(ScopeDecls(getCurrentScope(Sema))) = 1
  /\ Len(Sema.Decls) = 2
  /\ Sema.Decls[2].Id = "x"

\* ---- C9

\* The positions, in scope sc, of the Declarations of the name Id.
Named(sc, Id) == {p \in 1..Len(ScopeDecls(sc)) : Sema.Decls[ScopeDecls(sc)[p]].Id = Id}

\* C9: when a namespace scope holds exactly two Declarations of a name, they are
\* distinct, the second's First is the first, the second's link leads to the
\* first and the first's link to the second.
C9_NamespaceRedeclaration ==
  \A sc \in 1..Len(Sema.Scopes) :
    Sema.Scopes[sc].Kind = "Namespace" =>
      \A p, q \in 1..Len(ScopeDecls(sc)) :
        (p < q /\ Sema.Decls[ScopeDecls(sc)[p]].Id # ""
           /\ Named(sc, Sema.Decls[ScopeDecls(sc)[p]].Id) = {p, q}) =>
          LET a == ScopeDecls(sc)[p]
              b == ScopeDecls(sc)[q]
          IN /\ a # b
             /\ Sema.Decls[a].First = a
             /\ Sema.Decls[b].First = a
             /\ Sema.Decls[b].Next = a
             /\ Sema.Decls[a].Next = b

\* `x : int` twice in the file: two Declarations in the file scope.
C9_Witness ==
  /\ File = <<Colon(Atom("x"), Atom("int")), Colon(Atom("x"), Atom("int"))>>
  /\ IdentificationEnded
  /\ DeclAt(1) # Null /\ DeclAt(2) # Null /\ DeclAt(1) # DeclAt(2)
  /\ Sema.Decls[DeclAt(2)].First = DeclAt(1)

\* ---- C10

\* The child the initializer pass handles next redefines its entity.
RedefinitionNext ==
  /\ Pass = "InitElaborate"
  /\ DeclAt(Child) # Null
  /\ isRedefinition(Sema, DeclAt(Child))

Pushes(s) ==
  Cardinality({n \in 1..Len(s.Log) : s.Log[n].ev \in {"pushDecl", "pushScope"}})

\* C10: elaborateDeclInit of a Declaration whose entity already carries a completed
\* initializer or body leaves every host object as it was and pushes neither a
\* declaration nor a scope.
C10_RedefinitionKeepsFirst ==
  [][RedefinitionNext =>
       /\ Sema'.Objs = Sema.Objs
       /\ Pushes(Sema') = Pushes(Sema)
       /\ Sema'.DeclStack = Sema.DeclStack
       /\ Sema'.ScopeStack = Sema.ScopeStack]_vars

\* Two definitions of f: the second was reported, the first body is attached.
C10_Witness ==
  /\ Len(File) = 2 /\ Pass = "Finish"
  /\ IsFunctionForm(File[1]) /\ File[1] = File[2] /\ File[1].callee.sp = OpExclaim
  /\ Reported("err_redefinition", <<2>>)
  /\ Sema.Objs[Sema.Decls[DeclAt(1)].Cxx].Def.of = DeclAt(1)
  /\ Sema.Objs[Sema.Decls[DeclAt(2)].Cxx].Def = NoDef

\* ---- C11

\* Child i has a Declaration with a host object.
Materialized(i) == DeclAt(i) # Null /\ Sema.Decls[DeclAt(i)].Cxx # Null

\* The places at which object o was added to a declaration context.
AddedAt(o) == {n \in 1..Len(Sema.CtxDecls) : Sema.CtxDecls[n].Obj = o}

\* C11: for two children of the file that both got a host object, the object of
\* the earlier child was created first (objects are numbered as they are
\* created) and was added first to the translation unit, each exactly once.
C11_CreationOrder ==
  \A i, j \in Children :
    (i < j /\ Materialized(i) /\ Materialized(j)) =>
      /\ Sema.Decls[DeclAt(i)].Cxx < Sema.Decls[DeclAt(j)].Cxx
      /\ Cardinality(AddedAt(Sema.Decls[DeclAt(i)].Cxx)) = 1
      /\ Cardinality(AddedAt(Sema.Decls[DeclAt(j)].Cxx)) = 1
      /\ \A m \in AddedAt(Sema.Decls[DeclAt(i)].Cxx), n \in AddedAt(Sema.Decls[DeclAt(j)].Cxx) :
           /\ m < n
           /\ Sema.CtxDecls[m].Owner = TranslationUnitDecl
           /\ Sema.CtxDecls[n].Owner = TranslationUnitDecl

\* elaborateFile is done with `x : int` followed by `f() : int`, both materialized.
C11_Witness ==
  /\ Pass = "Done"
  /\ File = <<Colon(Atom("x"), Atom("int")), Colon(Call(Atom("f"), <<>>), Atom("int"))>>
  /\ Materialized(1) /\ Materialized(2)
  /\ Sema.Objs[Sema.Decls[DeclAt(1)].Cxx].Kind = "Var"
  /\ Sema.Objs[Sema.Decls[DeclAt(2)].Cxx].Kind = "Function"

\* ---- C12

\* The call of makeDeclarator returned a chain.
Returned == Made.done /\ ~Made.R.abort /\ Made.R.ch # <<>>

\* The fragments the call put in front of the chain it was given.
Built == SubSeq(Made.R.ch, 1, Len(Made.R.ch) - Len(Made.Next))

Positions(kind) == {n \in 1..Len(Built) : Built[n].Kind = kind}

IsPointerForm(S) == isCall(S) /\ isAtom(S.callee) /\ S.callee.sp = OpCaret

IsFunctionDeclaratorForm(S) ==
  isCall(S) /\ isAtom(S.callee) /\ S.callee.sp \notin {OpColon, OpCaret, OpEquals, OpExclaim}

IsTypedForm(S) == isCall(S) /\ isAtom(S.callee) /\ S.callee.sp = OpColon

\* How many operators of one kind ("Pointer": ^D, "Function": D()) are nested in
\* the declarator S, parameter lists and leaf type operands apart.
RECURSIVE CountNested(_, _)
CountNested(S, kind) ==
  IF ~isCall(S) THEN 0
  ELSE IF IsTypedForm(S)
  THEN CountNested(getArgument(S, 0), kind)
       + (IF isCall(getArgument(S, 1)) THEN CountNested(getArgument(S, 1), kind) ELSE 0)
  ELSE IF IsPointerForm(S)
  THEN (IF kind = "Pointer" THEN 1 ELSE 0) + CountNested(getArgument(S, 0), kind)
  ELSE (IF kind = "Function" THEN 1 ELSE 0) + CountNested(S.callee, kind)

\* D is the fragment of the given kind built for the call node C.
IsFragmentOf(D, kind, C) == D.Kind = kind /\ D.Call = C

\* C12: a chain makeDeclarator returns has one Pointer fragment for every ^ and
\* one Function fragment for every function form nested in the node, in front of
\* the chain it was given; for ^(f()) the chain is the Pointer fragment of the
\* node, the fragment of f, the Function fragment of f(); for f() : ^T it is the
\* fragment of f, the Function fragment of f(), the Pointer fragment of ^T and
\* what T contributes.
C12_PointerFunctionNesting ==
  Returned =>
    /\ Cardinality(Positions("Pointer")) = CountNested(File[1], "Pointer")
    /\ Cardinality(Positions("Function")) = CountNested(File[1], "Function")
    /\ SubSeq(Made.R.ch, Len(Built) + 1, Len(Made.R.ch)) = Made.Next
    /\ (IsPointerForm(File[1]) /\ IsFunctionDeclaratorForm(getArgument(File[1], 0))) =>
         /\ Len(Built) = 3
         /\ IsFragmentOf(Built[1], "Pointer", File[1])
         /\ IsFragmentOf(Built[3], "Function", getArgument(File[1], 0))
    /\ (IsTypedForm(File[1]) /\ IsFunctionDeclaratorForm(getArgument(File[1], 0))
          /\ IsPointerForm(getArgument(File[1], 1))) =>
         /\ Len(Built) >= 3
         /\ IsFragmentOf(Built[2], "Function", getArgument(File[1], 0))
         /\ IsFragmentOf(Built[3], "Pointer", getArgument(File[1], 1))

\* makeDeclarator returned for `x() : ^int`: Identifier, Function, Pointer, Type.
C12_Witness ==
  /\ Returned
  /\ File[1] = Colon(Call(Atom("x"), <<>>), Caret(Atom("int")))
  /\ Made.Next = <<>>
  /\ [n \in 1..Len(Built) |-> Built[n].Kind] = <<"Identifier", "Function", "Pointer", "Type">>

\* ---- C13

\* The scopes that bind Declaration d.
BindingScopes(d) ==
  {sc \in 1..Len(Sema.Scopes) : \E p \in 1..Len(ScopeDecls(sc)) : ScopeDecls(sc)[p] = d}

\* C13: the host object of a variable elaborated in a block scope has automatic
\* storage, that of a variable elaborated in a namespace scope static storage.
C13_StorageClass ==
  \A d \in 1..Len(Sema.Decls) :
    (Sema.Decls[d].Cxx # Null /\ Sema.Objs[Sema.Decls[d].Cxx].Kind = "Var") =>
      \A sc \in BindingScopes(d) :
        /\ Sema.Scopes[sc].Kind \in {"Block", "Namespace"}
        /\ Sema.Scopes[sc].Kind = "Block" <=> Sema.Objs[Sema.Decls[d].Cxx].SC = "SC_Auto"
        /\ Sema.Scopes[sc].Kind = "Namespace" <=> Sema.Objs[Sema.Decls[d].Cxx].SC = "SC_Static"

\* `x : int` was elaborated in a block scope: its variable has automatic storage.
C13_Witness ==
  /\ Pass = "Api" /\ CurrentKind = "Block"
  /\ Len(File) >= 1 /\ File[1] = Colon(Atom("x"), Atom("int"))
  /\ Bound(1)
  /\ Sema.Decls[findDeclOfSyntax(Sema, getCurrentScope(Sema), <<1>>)].Cxx # Null
  /\ Sema.Objs[Sema.Decls[findDeclOfSyntax(Sema, getCurrentScope(Sema), <<1>>)].Cxx].Kind = "Var"
  /\ Sema.Objs[Sema.Decls[findDeclOfSyntax(Sema, getCurrentScope(Sema), <<1>>)].Cxx].SC = "SC_Auto"

\* ---- C14

\* C14: whatever node makeDeclarator is called on, the call comes back, with a
\* chain or with null; no node makes it stop the process.
C14_BuilderAlwaysReturns == Made.done => ~Made.R.abort

\* ---- C15

\* C15: two Declarations of one name are bound in the same scope only when the
\* scope is a namespace or parameter scope and the later one was linked to the
\* earlier one by setPreviousDecl (they share their First).
C15_RebindOnlyByRedeclaration ==
  \A sc \in 1..Len(Sema.Scopes) :
    \A p, q \in 1..Len(ScopeDecls(sc)) :
      (p < q /\ Sema.Decls[ScopeDecls(sc)[q]].Id # ""
         /\ Sema.Decls[ScopeDecls(sc)[p]].Id = Sema.Decls[ScopeDecls(sc)[q]].Id) =>
        /\ Sema.Scopes[sc].Kind \in {"Namespace", "Parameter"}
        /\ Sema.Decls[ScopeDecls(sc)[q]].First = Sema.Decls[ScopeDecls(sc)[p]].First

\* ---- C16

\* The initializer pass handles a function Declaration next: elaborateFunctionDef is called.
FunctionDefNext ==
  /\ Pass = "InitElaborate"
  /\ DeclAt(Child) # Null
  /\ declaresFunction(Sema, DeclAt(Child))

\* C16: a call of elaborateFunctionDef that returns leaves the scope stack and the
\* current-declaration stack as they were before it, and when elaborateFile has
\* returned both stacks are empty, as they were before it was called.
C16_StacksBalanced ==
  [][/\ (FunctionDefNext /\ ~Sema'.Aborted) =>
          /\ Sema'.ScopeStack = Sema.ScopeStack
          /\ Sema'.DeclStack = Sema.DeclStack
     /\ Pass' = "Done" => Sema'.ScopeStack = <<>> /\ Sema'.DeclStack = <<>>]_vars

\* elaborateFile has returned after elaborating the body of a function.
C16_Witness ==
  /\ Pass = "Done"
  /\ Len(File) >= 1 /\ DeclAt(1) # Null /\ BodyElaborated(DeclAt(1))
  /\ Sema.ScopeStack = <<>> /\ Sema.DeclStack = <<>>

\* ---- C17

\* The statement elaborator was called for the body of some function.
BodyCalls == {n \in 1..Len(Sema.Log) : Sema.Log[n].ev = "elaborateBlock"}

\* For the functions that have their host object: whenever the statement
\* elaborator is called for the body of function d, the scope stack is, from the
\* top, a Function scope anchored at d's body, the Parameter scope saved on d's
\* Function fragment, and below it the scopes that were current before; and the
\* body is attached to d's own object.
BodyScopesOfTypedFunctions ==
  \A n \in BodyCalls :
    LET d == Sema.Log[n].at[1]
        st == Tail(Sema.Log[n].at)
    IN Sema.Decls[d].Cxx # Null =>
         /\ Len(st) >= 3
         /\ Sema.Scopes[st[Len(st)]].Kind = "Function"
         /\ Sema.Scopes[st[Len(st)]].Term = InitKey(Sema.Decls[d].Op)
         /\ st[Len(st) - 1] # Null
         /\ st[Len(st) - 1] = Sema.Decls[d].Decl[2].ConstructedScope
         /\ Sema.Scopes[st[Len(st) - 1]].Kind = "Parameter"
         /\ Sema.Scopes[st[Len(st) - 1]].Term = Sema.Decls[d].Op
         /\ SubSeq(st, 1, Len(st) - 2) = <<FileScope>>
         /\ Sema.Objs[Sema.Decls[d].Cxx].Kind = "Function"
         /\ Sema.Objs[Sema.Decls[d].Cxx].Def.of = d

\* C17: the statement elaborator is only ever called for the body of a function
\* that has its host object, on the scope stack described above, and the body
\* is attached to that object.
C17_BodyScopes ==
  /\ BodyScopesOfTypedFunctions
  /\ \A n \in BodyCalls : Sema.Decls[Sema.Log[n].at[1]].Cxx # Null

\* ---- C18

\* A node identifyDecl does not take for a declaration.
NotADeclarationForm(S) ==
  \/ ~isCall(S)
  \/ ~isAtom(S.callee)
  \/ S.callee.sp \notin {OpEquals, OpExclaim, OpColon}

\* C18: a step that hands identifyDecl a node that is no invocation, or whose
\* callee is no leaf, or whose callee is none of operator'=', operator'!',
\* operator':', leaves the Declarations (and so their links), the scopes and
\* their bindings, the host objects and the diagnostics as they were.
C18_NonDeclarationsChangeNothing ==
  [][(Len(File') = Len(File) + 1 /\ NotADeclarationForm(File'[Len(File')])) =>
       /\ Sema'.Decls = Sema.Decls
       /\ Sema'.Scopes = Sema.Scopes
       /\ Sema'.Objs = Sema.Objs
       /\ Sema'.Diags = Sema.Diags
       /\ ~Sema'.Aborted]_vars

\* identifyDecl was handed `x`, then `g()`, or `g()()`: still only the root Declaration.
C18_Witness ==
  /\ Pass = "Api"
  /\ Len(File) >= 1
  /\ \A i \in Children : File[i] \in {Atom("x"), Call(Atom("g"), <<>>), Call(Call(Atom("g"), <<>>), <<>>)}
  /\ \E i \in Children : File[i] = Call(Call(Atom("g"), <<>>), <<>>)
  /\ \A i \in Children : Applied("identifyDecl", i) = 1
  /\ Len(Sema.Decls) = 1
  /\ Sema.Diags = <<>>

\* ---- C19

\* The chain makeDeclarator builds for node S on its own.
ChainOf(S) == makeDeclarator(Sema, S, <<>>)

HasChain(S) == ~ChainOf(S).abort /\ ChainOf(S).ch # <<>>

\* The one Type fragment for the type operand of the node S = `name : type`.
TypeFragmentOf(S) ==
  [Kind |-> "Type", Call |-> S, Data |-> getArgument(S, 1), ConstructedScope |-> Null]

\* For a call at the top of the recursion, where no chain is passed in, and a name
\* operand that is a leaf or a function form: the chain of `name : type` is the
\* chain of the name operand followed by the Type fragment of a leaf type
\* operand, or by the chain of a type operand that is an invocation.
TypedFormChainAtTop ==
  (Returned /\ IsTypedForm(File[1]) /\ Made.Next = <<>>
     /\ (isAtom(getArgument(File[1], 0)) \/ IsFunctionDeclaratorForm(getArgument(File[1], 0)))
     /\ HasChain(getArgument(File[1], 0))) =>
    IF isCall(getArgument(File[1], 1))
    THEN HasChain(getArgument(File[1], 1)) =>
           Made.R.ch = ChainOf(getArgument(File[1], 0)).ch
                       \o ChainOf(getArgument(File[1], 1)).ch
    ELSE Made.R.ch = ChainOf(getArgument(File[1], 0)).ch \o <<TypeFragmentOf(File[1])>>

\* C19: for `name : type` with a leaf type operand the chain returned is the chain
\* of the name operand, one Type fragment for the type operand, then the chain
\* passed in; with an invocation as type operand it is the chain of the name
\* operand, the chain of the type operand, then the chain passed in.
C19_TypedFormChain ==
  /\ TypedFormChainAtTop
  /\ (Returned /\ IsTypedForm(File[1]) /\ HasChain(getArgument(File[1], 0))) =>
       IF isCall(getArgument(File[1], 1))
       THEN HasChain(getArgument(File[1], 1)) =>
              Made.R.ch = ChainOf(getArgument(File[1], 0)).ch
                          \o ChainOf(getArgument(File[1], 1)).ch \o Made.Next
       ELSE Made.R.ch = ChainOf(getArgument(File[1], 0)).ch
                        \o <<TypeFragmentOf(File[1])>> \o Made.Next

\* ---- C20

\* C20: called on a leaf, makeDeclarator returns the chain it was given with one
\* new fragment for the leaf in front: a Type fragment when the tag-name lookup
\* of the leaf's spelling in the current scope succeeds, an Identifier fragment
\* when it fails.
C20_LeafFragment ==
  (Made.done /\ isAtom(File[1])) =>
    /\ ~Made.R.abort
    /\ Len(Made.R.ch) = Len(Made.Next) + 1
    /\ Tail(Made.R.ch) = Made.Next
    /\ Made.R.ch[1].Data = File[1]
    /\ Made.R.ch[1].Kind \in {"Type", "Identifier"}
    /\ Made.R.ch[1].Kind = "Type" <=> lookupUnqualifiedName(Sema, File[1].sp)

\* makeDeclarator returned for the leaf `x` with a chain passed in: Identifier, then that chain.
C20_Witness ==
  /\ Made.done
  /\ File[1] = Atom("x")
  /\ Made.Next # <<>>
  /\ Made.R.ch[1].Kind = "Identifier"
  /\ Tail(Made.R.ch) = Made.Next

\* ---- C21

\* The number of fragments the walk of makeDeclarator builds for node S.
RECURSIVE FragmentsOf(_)
FragmentsOf(S) ==
  IF isAtom(S) THEN 1
  ELSE IF ~isCall(S) THEN 0
  ELSE IF IsTypedForm(S)
  THEN FragmentsOf(getArgument(S, 0))
       + (IF isCall(getArgument(S, 1)) THEN FragmentsOf(getArgument(S, 1)) ELSE 1)
  ELSE IF IsPointerForm(S) THEN 1 + FragmentsOf(getArgument(S, 0))
  ELSE 1 + FragmentsOf(S.callee)

\* The Declaration made from the chain that was returned.
Declared == Len(Sema.Decls) = 2 /\ Pass = "Declarator"

RedeclForms ==
  { Atom("x"), Colon(Atom("x"), Atom("int")), Equals(Atom("x"), Literal("3")),
    Colon(Atom("y"), Atom("int")), Colon(Call(Atom("f"), <<>>), Atom("int")) }

InitRedecl ==
  /\ File = <<>>
  /\ Pass = "Redecl"
  /\ Child = 0
  /\ Calls = 0
  /\ Made = NoDcl
  /\ Val = NoValue
  /\ \E ndebug \in BOOLEAN, K \in ScopeKinds :
       Sema = IF K = "Namespace" THEN startFile(NewSema(ndebug))
              ELSE enterScope(startFile(NewSema(ndebug)), K, <<0>>)

DeclareAgain ==
  /\ Pass = "Redecl" /\ Calls < MaxRedecl /\ ~Sema.Aborted
  /\ \E S \in RedeclForms :
       /\ File' = Append(File, S)
       /\ Sema' = identifyDecl(Note(Sema, "identifyDecl", <<Len(File')>>), S, <<Len(File')>>)
  /\ Calls' = Calls + 1
  /\ UNCHANGED <<Pass, Child, Made, Val>>

NextRedecl == DeclareAgain

SpecRedecl == InitRedecl /\ [][NextRedecl]_vars

\* ---- C22

\* The oldest Declaration of the name Id in scope sc.
Oldest(sc, Id) == ScopeDecls(sc)[CHOOSE p \in Named(sc, Id) : \A q \in Named(sc, Id) : p <= q]

\* C22: in a namespace or parameter scope every Declaration of a name has the
\* oldest Declaration of that name as its First, however often the name was
\* redeclared.
C22_FirstIsOldest ==
  \A sc \in 1..Len(Sema.Scopes) :
    Sema.Scopes[sc].Kind \in {"Namespace", "Parameter"} =>
      \A p \in 1..Len(ScopeDecls(sc)) :
        Sema.Decls[ScopeDecls(sc)[p]].Id # "" =>
          Sema.Decls[ScopeDecls(sc)[p]].First = Oldest(sc, Sema.Decls[ScopeDecls(sc)[p]].Id)

\* x declared three times in a parameter scope (`x : int`, `x = 3`, `x : int`):
\* the third's First is the first.
C22_Witness ==
  /\ Pass = "Redecl"
  /\ CurrentKind = "Parameter"
  /\ File = <<Colon(Atom("x"), Atom("int")), Equals(Atom("x"), Literal("3")), Colon(Atom("x"), Atom("int"))>>
  /\ Len(ScopeDecls(getCurrentScope(Sema))) = 3
  /\ Sema.Decls[ScopeDecls(getCurrentScope(Sema))[3]].First = ScopeDecls(getCurrentScope(Sema))[1]
  /\ ScopeDecls(getCurrentScope(Sema))[2] # ScopeDecls(getCurrentScope(Sema))[1]

\* ---- C27

\* The Declarations met by following Next n - 1 times from Declaration d, d first.
RECURSIVE FollowNext(_, _)
FollowNext(d, n) == IF n = 0 THEN <<>> ELSE <<d>> \o FollowNext(Sema.Decls[d].Next, n - 1)

\* The Declarations of the name Id in scope sc, in the order they were created.
RECURSIVE InOrder(_, _, _)
InOrder(sc, Id, p) ==
  IF p > Len(ScopeDecls(sc)) THEN <<>>
  ELSE (IF Sema.Decls[ScopeDecls(sc)[p]].Id = Id THEN <<ScopeDecls(sc)[p]>> ELSE <<>>)
       \o InOrder(sc, Id, p + 1)

\* C27: in a namespace or parameter scope, where each redeclaration is linked
\* to the latest earlier Declaration of its name, following Next from the First
\* of any Declaration of a name visits the Declarations of that name once each
\* in the order of their creation, and the Next of the last one is First again.
C27_NextLinksFormOneRing ==
  \A sc \in 1..Len(Sema.Scopes) :
    Sema.Scopes[sc].Kind \in {"Namespace", "Parameter"} =>
      \A p \in 1..Len(ScopeDecls(sc)) :
        LET d == ScopeDecls(sc)[p]
            all == InOrder(sc, Sema.Decls[d].Id, 1)
        IN Sema.Decls[d].Id # "" =>
             /\ FollowNext(Sema.Decls[d].First, Len(all)) = all
             /\ Sema.Decls[all[Len(all)]].Next = Sema.Decls[d].First

\* `x : int` three times in the namespace scope of the file: the ring of x is
\* first, second, third and back.
C27_Witness ==
  /\ Pass = "Redecl"
  /\ CurrentKind = "Namespace"
  /\ File = <<Colon(Atom("x"), Atom("int")), Colon(Atom("x"), Atom("int")), Colon(Atom("x"), Atom("int"))>>
  /\ Len(ScopeDecls(FileScope)) = 3
  /\ LET a == ScopeDecls(FileScope)[1]
         b == ScopeDecls(FileScope)[2]
         c == ScopeDecls(FileScope)[3]
     IN /\ Cardinality({a, b, c}) = 3
        /\ Sema.Decls[a].Next = b /\ Sema.Decls[b].Next = c /\ Sema.Decls[c].Next = a

\* ---- C23

\* The nodes directly under node S, and all the nodes under it.
Kids(S) ==
  IF S.k = "Call" THEN {S.callee} \cup {S.args.ch[i] : i \in 1..Len(S.args.ch)}
  ELSE IF S.k \in {"List", "Array"} THEN {S.ch[i] : i \in 1..Len(S.ch)}
  ELSE {}

RECURSIVE Below(_)
Below(S) == UNION {{K} \cup Below(K) : K \in Kids(S)}

\* The nodes a call of makeDeclarator on S calls makeDeclarator on.
RecursesOn(S) ==
  IF ~isCall(S) THEN {}
  ELSE IF IsTypedForm(S)
  THEN IF isCall(getArgument(S, 1)) THEN {getArgument(S, 1), getArgument(S, 0)}
       ELSE {getArgument(S, 0)}
  ELSE IF IsPointerForm(S) THEN {getArgument(S, 0)}
  ELSE {S.callee}

\* The loop bodies elaborateFile still has to run, the final finishFile included.
StepsLeft ==
  CASE Pass = "Start" -> 3 * Len(File) + 2
    [] Pass = "Identify" -> 3 * Len(File) + 2 - Child
    [] Pass = "TypeElaborate" -> 2 * Len(File) + 2 - Child
    [] Pass = "InitElaborate" -> Len(File) + 2 - Child
    [] Pass = "Finish" -> 1
    [] OTHER -> 0

C24_FunctionScopesBalance == Pass = "Done" => Sema.FunctionScopes = 0

\* ---- C25

\* C25: getFunctionParameters never finds a parameter of the list without a
\* Declaration in the saved parameter scope, nor one without its object: the
\* walk is not stopped there, and no function object holds a null parameter.
C25_ParametersAreMaterialized ==
  /\ Sema.AbortMsg \notin {"null Declaration", "No corresponding declaration"}
  /\ \A o \in 1..Len(Sema.Objs) :
       Sema.Objs[o].Kind = "Function" =>
         \A j \in 1..Len(Sema.Objs[o].Params) : Sema.Objs[o].Params[j] # Null

\* ---- C26

NumLowBitsAvailable == 3

RECURSIVE Pow2(_)
Pow2(n) == IF n = 0 THEN 1 ELSE 2 * Pow2(n - 1)

\* std::numeric_limits<unsigned>::max()
UnsignedMax == Pow2(UnsignedBits) - 1

\* The widths uintptr_t has: that of unsigned, or twice it.
PointerWidths == {UnsignedBits, 2 * UnsignedBits}

\* DynamicAllocLValue() : Index(0)
DefaultDynamicAllocLValue == 0

\* explicit DynamicAllocLValue(unsigned Index) : Index(Index + 1)
NewDynamicAllocLValue(I) == (I + 1) % Pow2(UnsignedBits)

\* unsigned getIndex() { return Index - 1; }
getIndex(Index) == (Index - 1) % Pow2(UnsignedBits)

\* explicit operator bool() const { return Index != 0; }
toBool(Index) == Index # 0

\* static_cast<uintptr_t>(Index) << NumLowBitsAvailable, in a uintptr_t of w bits
getOpaqueValue(Index, w) == (Index * Pow2(NumLowBitsAvailable)) % Pow2(w)

\* V.Index = reinterpret_cast<uintptr_t>(Value) >> NumLowBitsAvailable, narrowed to unsigned
getFromOpaqueValue(Value) == (Value \div Pow2(NumLowBitsAvailable)) % Pow2(UnsignedBits)

\* A limit that forgets the bits the shift needs.
getMaxIndexUnshifted == UnsignedMax - 1

getMaxIndex == (UnsignedMax \div Pow2(NumLowBitsAvailable)) - 1

\* A DynamicAllocLValue is default-constructed or constructed from any unsigned
\* I, turned into its opaque pointer, and read back from it.
InitAlloc ==
  /\ File = <<>>
  /\ Pass = "Alloc"
  /\ Child = 0
  /\ Calls = 0
  /\ Made = NoDcl
  /\ Sema = NewSema(TRUE)
  /\ \E w \in PointerWidths :
       Val = [of |-> "DynamicAllocLValue", at |-> "default", width |-> w, I |-> 0,
              Index |-> DefaultDynamicAllocLValue, Opaque |-> 0, Back |-> 0]

ConstructDynamicAllocLValue ==
  /\ Pass = "Alloc" /\ Val.at = "default"
  /\ \E I \in 0..UnsignedMax :
       Val' = [Val EXCEPT !.at = "constructed", !.I = I, !.Index = NewDynamicAllocLValue(I)]
  /\ UNCHANGED <<File, Pass, Child, Sema, Calls, Made>>

CallGetOpaqueValue ==
  /\ Pass = "Alloc" /\ Val.at \in {"default", "constructed"}
  /\ Val' = [Val EXCEPT !.at = IF Val.at = "default" THEN "default opaque" ELSE "opaque",
                        !.Opaque = getOpaqueValue(Val.Index, Val.width)]
  /\ UNCHANGED <<File, Pass, Child, Sema, Calls, Made>>

CallGetFromOpaqueValue ==
  /\ Pass = "Alloc" /\ Val.at \in {"default opaque", "opaque"}
  /\ Val' = [Val EXCEPT !.at = IF Val.at = "opaque" THEN "back" ELSE "default back",
                        !.Back = getFromOpaqueValue(Val.Opaque)]
  /\ UNCHANGED <<File, Pass, Child, Sema, Calls, Made>>

NextAlloc == ConstructDynamicAllocLValue \/ CallGetOpaqueValue \/ CallGetFromOpaqueValue

SpecAlloc == InitAlloc /\ [][NextAlloc]_vars

\* ---- C30

\* C30: a DynamicAllocLValue constructed from an index I up to getMaxIndex()
\* converts to true and getIndex() gives I back; the value read back from its
\* opaque pointer converts to true and has the index I, in either width of
\* uintptr_t; a default-constructed value converts to false, and so does the one
\* read back from its opaque pointer.
C30_DynamicAllocRoundTrip ==
  /\ (Val.of = "DynamicAllocLValue" /\ Val.at \in {"constructed", "opaque", "back"}
        /\ Val.I <= getMaxIndex) =>
       /\ toBool(Val.Index)
       /\ getIndex(Val.Index) = Val.I
       /\ Val.at = "back" => (toBool(Val.Back) /\ getIndex(Val.Back) = Val.I)
  /\ (Val.of = "DynamicAllocLValue" /\ Val.at \in {"default", "default opaque", "default back"}) =>
       /\ ~toBool(Val.Index)
       /\ Val.at = "default back" => ~toBool(Val.Back)

\* The largest index, read back where uintptr_t is as wide as unsigned: the
\* shifted value fills the width and nothing is lost.
C30_Witness ==
  /\ Val.of = "DynamicAllocLValue" /\ Val.at = "back"
  /\ Val.width = UnsignedBits
  /\ Val.I = getMaxIndex
  /\ Val.Opaque = Pow2(UnsignedBits) - Pow2(NumLowBitsAvailable)
  /\ getIndex(Val.Back) = getMaxIndex

\* ------------------------------------------------------------------ APValue (APValue.h)

\* The number of APValue objects that exist side by side.
MaxValues == 2

\* The kinds a Make* step gives, and all of enum ValueKind.
MadeKinds ==
  {"Int", "Float", "FixedPoint", "ComplexInt", "ComplexFloat", "LValue", "Vector", "Array",
   "Struct", "Union", "MemberPointer", "AddrLabelDiff", "Reflection", "Fragment", "Type"}

ValueKind == {"None", "Indeterminate"} \cup MadeKinds

\* No object in this place.
NoAPValue == [alive |-> FALSE, Kind |-> "None", Via |-> "ctor", Bad |-> FALSE]

\* APValue() : Kind(None).  Via is the step that gave Kind its value; Bad, that
\* a "Bad state change" assertion was met with a value that was not absent.
NewAPValue == [alive |-> TRUE, Kind |-> "None", Via |-> "ctor", Bad |-> FALSE]

isAbsent(v) == v.Kind = "None"

\* MakeInt, MakeFloat, ...: assert(isAbsent() && "Bad state change"); Kind = K.
Make(v, K) == [v EXCEPT !.Kind = K, !.Via = "Make", !.Bad = v.Bad \/ ~isAbsent(v)]

\* The constructors that start from Kind(None) and call one Make* step.
ConstructAs(K) == Make(NewAPValue, K)

\* static APValue IndeterminateValue(): Result.Kind = Indeterminate.
IndeterminateValue == [NewAPValue EXCEPT !.Kind = "Indeterminate", !.Via = "IndeterminateValue"]

\* APValue(const APValue &RHS): Kind(None), then the kind of RHS is taken over
\* as it is when RHS is absent or indeterminate, and made by its Make* step otherwise.
CopyConstruct(RHS) ==
  IF RHS.Kind = "None" THEN NewAPValue
  ELSE IF RHS.Kind = "Indeterminate" THEN [NewAPValue EXCEPT !.Kind = "Indeterminate", !.Via = "copy"]
  ELSE Make(NewAPValue, RHS.Kind)

\* swap(RHS): Kind and Data change places.
swap(a, b) ==
  [this |-> [a EXCEPT !.Kind = b.Kind, !.Via = IF b.Kind = a.Kind THEN a.Via ELSE "swap"],
   RHS |-> [b EXCEPT !.Kind = a.Kind, !.Via = IF b.Kind = a.Kind THEN b.Via ELSE "swap"]]

\* DestroyDataAndMakeUninit: the data is destroyed and Kind is None again.
DestroyDataAndMakeUninit(v) == [v EXCEPT !.Kind = "None", !.Via = "destroy"]

\* ~APValue(), before the storage goes.
destroy(v) == IF v.Kind \notin {"None", "Indeterminate"} THEN DestroyDataAndMakeUninit(v) ELSE v

\* An assignment that makes the kind of RHS in place, over the value held.
assignInPlace(this, RHS) ==
  IF RHS.Kind \in {"None", "Indeterminate"}
  THEN [this EXCEPT !.Kind = RHS.Kind, !.Via = "copy"]
  ELSE Make(this, RHS.Kind)

\* APValue &operator=(APValue RHS) { swap(RHS); return *this; }: RHS is a copy
\* of the argument, which the swap leaves with the old value and which is then destroyed.
assign(this, RHS) ==
  LET Copy == CopyConstruct(RHS)
      S == swap(this, Copy)
  IN [S.this EXCEPT !.Bad = S.this.Bad \/ destroy(S.RHS).Bad]

Values == 1..MaxValues

InitValue ==
  /\ File = <<>>
  /\ Pass = "Value"
  /\ Child = 0
  /\ Calls = 0
  /\ Made = NoDcl
  /\ Sema = NewSema(TRUE)
  /\ Val = [of |-> "APValue", Objs |-> [i \in Values |-> NoAPValue]]

ConstructValue ==
  /\ Pass = "Value"
  /\ \E i \in Values :
       /\ ~Val.Objs[i].alive
       /\ \E v \in {NewAPValue, IndeterminateValue} \cup {ConstructAs(K) : K \in MadeKinds} :
            Val' = [Val EXCEPT !.Objs[i] = v]
  /\ UNCHANGED <<File, Pass, Child, Sema, Calls, Made>>

CopyValue ==
  /\ Pass = "Value"
  /\ \E i, j \in Values :
       /\ ~Val.Objs[i].alive /\ Val.Objs[j].alive
       /\ Val' = [Val EXCEPT !.Objs[i] = CopyConstruct(Val.Objs[j])]
  /\ UNCHANGED <<File, Pass, Child, Sema, Calls, Made>>

\* APValue(APValue &&RHS) : Kind(None) { swap(RHS); }
MoveValue ==
  /\ Pass = "Value"
  /\ \E i, j \in Values :
       /\ ~Val.Objs[i].alive /\ Val.Objs[j].alive
       /\ Val' = [Val EXCEPT !.Objs[i] = swap(NewAPValue, Val.Objs[j]).this,
                             !.Objs[j] = swap(NewAPValue, Val.Objs[j]).RHS]
  /\ UNCHANGED <<File, Pass, Child, Sema, Calls, Made>>

AssignValue ==
  /\ Pass = "Value"
  /\ \E i, j \in Values :
       /\ Val.Objs[i].alive /\ Val.Objs[j].alive
       /\ Val' = [Val EXCEPT !.Objs[i] = assign(Val.Objs[i], Val.Objs[j])]
  /\ UNCHANGED <<File, Pass, Child, Sema, Calls, Made>>

SwapValues ==
  /\ Pass = "Value"
  /\ \E i, j \in Values :
       /\ i # j /\ Val.Objs[i].alive /\ Val.Objs[j].alive
       /\ Val' = [Val EXCEPT !.Objs[i] = swap(Val.Objs[i], Val.Objs[j]).this,
                             !.Objs[j] = swap(Val.Objs[i], Val.Objs[j]).RHS]
  /\ UNCHANGED <<File, Pass, Child, Sema, Calls, Made>>

DestroyValue ==
  /\ Pass = "Value"
  /\ \E i \in Values :
       /\ Val.Objs[i].alive
       /\ Val' = [Val EXCEPT !.Objs[i] = [destroy(Val.Objs[i]) EXCEPT !.alive = FALSE, !.Via = "ctor",
                                                                    !.Kind = "None"]]
  /\ UNCHANGED <<File, Pass, Child, Sema, Calls, Made>>

NextValue ==
  ConstructValue \/ CopyValue \/ MoveValue \/ AssignValue \/ SwapValues \/ DestroyValue

SpecValue == InitValue /\ [][NextValue]_vars

\* ---- C29

\* The APValue objects that exist.
Alive == IF Val.of = "APValue" THEN {i \in Values : Val.Objs[i].alive} ELSE {}

\* C29 as stated: a value whose Kind is not None got it by a Make* step on an
\* absent value.
C29_OnlyMakeLeavesNone ==
  \A i \in Alive :
    /\ ~Val.Objs[i].Bad
    /\ ~isAbsent(Val.Objs[i]) => Val.Objs[i].Via = "Make"

\* C29, amended: no Make* step is ever applied to a value that is not absent;
\* a value holding one of the made kinds got it by a Make* step or by swapping
\* with another value, and an indeterminate one by IndeterminateValue(), by
\* copying an indeterminate value, or by swapping.
C29_MakeOnlyWhenAbsent ==
  \A i \in Alive :
    /\ ~Val.Objs[i].Bad
    /\ Val.Objs[i].Kind \in MadeKinds => Val.Objs[i].Via \in {"Make", "swap"}
    /\ Val.Objs[i].Kind = "Indeterminate" =>
         Val.Objs[i].Via \in {"IndeterminateValue", "copy", "swap"}

\* A value that held an Int was assigned a Float: it holds the Float by the swap.
C29_Witness ==
  /\ Alive = {1, 2}
  /\ Val.Objs[1].Kind = "Float" /\ Val.Objs[1].Via = "swap"
  /\ Val.Objs[2].Kind = "Float" /\ Val.Objs[2].Via = "Make"

\* ------------------------------------------------------------------ what a Declaration declares (GoldDeclaration.cpp)

\* The classes of host declaration objects a Declaration's Cxx can point to,
\* and isa<> between them: a constructor and a destructor are methods, a method
\* is a function.
HostDeclClasses == {"Function", "CXXMethod", "CXXConstructor", "CXXDestructor", "Var", "Field"}

isa(Class, Base) ==
  \/ Class = Base
  \/ Base = "CXXMethod" /\ Class \in {"CXXConstructor", "CXXDestructor"}
  \/ Base = "Function" /\ Class \in {"CXXMethod", "CXXConstructor", "CXXDestructor"}

declaresMemberFunction(s, d) ==
  declaresFunction(s, d) /\ s.Decls[d].Cxx # Null /\ isa(s.Objs[s.Decls[d].Cxx].Kind, "CXXMethod")

declaresConstructor(s, d) ==
  declaresFunction(s, d) /\ s.Decls[d].Cxx # Null /\ isa(s.Objs[s.Decls[d].Cxx].Kind, "CXXConstructor")

\* As the source has it: the test is isa<clang::CXXConstructorDecl>.
declaresDestructor(s, d) ==
  declaresFunction(s, d) /\ s.Decls[d].Cxx # Null /\ isa(s.Objs[s.Decls[d].Cxx].Kind, "CXXConstructor")

\* One declaration is identified in the namespace scope of a file, then given
\* a host object of some class, as the elaboration of classes does.
InitCxx ==
  /\ File \in {<<S>> : S \in ApiForms}
  /\ Pass = "Cxx"
  /\ Child = 0
  /\ Calls = 0
  /\ Made = NoDcl
  /\ Val = NoValue
  /\ \E ndebug \in BOOLEAN : Sema = startFile(NewSema(ndebug))

IdentifyChild ==
  /\ Pass = "Cxx" /\ Calls = 0
  /\ Sema' = identifyDecl(Note(Sema, "identifyDecl", <<1>>), File[1], <<1>>)
  /\ Calls' = 1
  /\ UNCHANGED <<File, Pass, Child, Made, Val>>

\* D->Cxx = the object created for D.
MaterializeAs ==
  /\ Pass = "Cxx" /\ ~Sema.Aborted
  /\ \E d \in 2..Len(Sema.Decls), Class \in HostDeclClasses :
       /\ Sema.Decls[d].Cxx = Null
       /\ Sema' = [Create(Sema, NewObject(Class, Sema.Decls[d].Id, "", "SC_None"))
                     EXCEPT !.Decls[d].Cxx = Len(Sema.Objs) + 1]
  /\ UNCHANGED <<File, Pass, Child, Calls, Made, Val>>

NextCxx == IdentifyChild \/ MaterializeAs

SpecCxx == InitCxx /\ [][NextCxx]_vars

\* ---- C28

\* C28: declaresDestructor() holds only of a function Declaration whose object
\* is a destructor, declaresConstructor() only of one whose object is a
\* constructor, and never both of the same Declaration.
C28_ConstructorOrDestructor ==
  \A d \in 1..Len(Sema.Decls) :
    /\ declaresDestructor(Sema, d) =>
         (declaresFunction(Sema, d) /\ Sema.Objs[Sema.Decls[d].Cxx].Kind = "CXXDestructor")
    /\ declaresConstructor(Sema, d) =>
         (declaresFunction(Sema, d) /\ Sema.Objs[Sema.Decls[d].Cxx].Kind = "CXXConstructor")
    /\ ~(declaresDestructor(Sema, d) /\ declaresConstructor(Sema, d))

====
